---- MODULE Spec2Model ----
(***************************************************************************)
(* Model of the nutrition core of meal_planner:                            *)
(*   - annotate_recipe_json (src/recipes.py): reads a recipe JSON file,    *)
(*     computes calories_per_serving and nova_score, rewrites the file;    *)
(*   - Person (src/nutrition.py): anthropometric state, BMR / TDEE /       *)
(*     daily caloric target.                                               *)
(*                                                                         *)
(* Python floats are modelled as exact rationals extended with +inf, -inf  *)
(* and NaN: a record [n, d] with d > 0 is the reduced fraction n/d, and    *)
(* d = 0 marks the special values (n = 1: +inf, n = -1: -inf, n = 0: NaN). *)
(* Rounding of binary floating point and the sign of zero are not          *)
(* modelled.                                                               *)
(***************************************************************************)
EXTENDS Integers, Sequences, FiniteSets, TLC

\* ------------------------------------------------------------------------
\* Bounds of the model
\* ------------------------------------------------------------------------

\* longest ingredient list of a recipe file
MaxIngredients == 2

\* longest ingredient list of a recipe file that already carries a
\* calories_per_serving and a nova_score when it is first annotated
MaxAnnotatedIngredients == 1

\* ------------------------------------------------------------------------
\* Float arithmetic
\* ------------------------------------------------------------------------

Abs(x) == IF x < 0 THEN 0 - x ELSE x

Sign(x) == IF x < 0 THEN 0 - 1 ELSE IF x > 0 THEN 1 ELSE 0

RECURSIVE GCD(_, _)
GCD(a, b) == IF b = 0 THEN a ELSE GCD(b, a % b)

LCM(a, b) == (a \div GCD(a, b)) * b

NaN == [n |-> 0, d |-> 0]

PInf == [n |-> 1, d |-> 0]

NInf == [n |-> 0 - 1, d |-> 0]

\* the float n/d, d > 0, as a reduced fraction
Frac(n, d) ==
    LET g == GCD(Abs(n), d)
    IN  [n |-> n \div g, d |-> d \div g]

Num(i) == [n |-> i, d |-> 1]

Zero == Num(0)

IsNaN(a) == a.d = 0 /\ a.n = 0

IsFin(a) == a.d > 0

\* a + b
FAdd(a, b) ==
    IF IsNaN(a) \/ IsNaN(b) THEN NaN
    ELSE IF ~IsFin(a) THEN (IF ~IsFin(b) /\ b.n # a.n THEN NaN ELSE a)
    ELSE IF ~IsFin(b) THEN b
    ELSE LET L == LCM(a.d, b.d)
         IN  Frac(a.n * (L \div a.d) + b.n * (L \div b.d), L)

\* a * b
FMul(a, b) ==
    IF IsNaN(a) \/ IsNaN(b) THEN NaN
    ELSE IF ~IsFin(a) \/ ~IsFin(b)
         THEN (IF a.n = 0 \/ b.n = 0 THEN NaN
               ELSE [n |-> Sign(a.n) * Sign(b.n), d |-> 0])
    ELSE LET g1 == GCD(Abs(a.n), b.d)
             g2 == GCD(Abs(b.n), a.d)
         IN  Frac((a.n \div g1) * (b.n \div g2), (a.d \div g2) * (b.d \div g1))

FNeg(a) == [n |-> 0 - a.n, d |-> a.d]

FSub(a, b) == FAdd(a, FNeg(b))

\* a / b for b # 0 (every division of the program has a non-zero divisor)
FDiv(a, b) ==
    IF IsNaN(a) \/ IsNaN(b) THEN NaN
    ELSE IF ~IsFin(b) THEN (IF IsFin(a) THEN Zero ELSE NaN)
    ELSE FMul(a, [n |-> Sign(b.n) * b.d, d |-> Abs(b.n)])

\* a > b; every comparison with NaN is false
FGt(a, b) ==
    IF IsNaN(a) \/ IsNaN(b) THEN FALSE
    ELSE IF ~IsFin(a) THEN a.n = 1 /\ b # PInf
    ELSE IF ~IsFin(b) THEN b.n = 0 - 1
    ELSE a.n * b.d > b.n * a.d

\* Python's max(0.0, x): the first argument unless the second is greater
FMax0(x) == IF FGt(x, Zero) THEN x ELSE Zero

\* Python's sum(seq): left fold starting from 0
RECURSIVE FSum(_)
FSum(seq) ==
    IF seq = << >> THEN Zero
    ELSE FAdd(FSum(SubSeq(seq, 1, Len(seq) - 1)), seq[Len(seq)])

\* ------------------------------------------------------------------------
\* JSON values as json.load returns them
\* ------------------------------------------------------------------------
\* k: "absent" (key not in the dict), "null", "bool", "num", "str",
\*    "list", "dict"; s: the text of a "str"; v: the float of a "num",
\*    0/1 for a "bool".

JAbsent == [k |-> "absent", s |-> "", v |-> Zero]

JNull == [k |-> "null", s |-> "", v |-> Zero]

JBool(b) == [k |-> "bool", s |-> "", v |-> Num(IF b THEN 1 ELSE 0)]

JNum(f) == [k |-> "num", s |-> "", v |-> f]

JStr(t) == [k |-> "str", s |-> t, v |-> Zero]

\* dict.get(key): None for a missing key as for an explicit null
Get(x) == IF x.k = "absent" THEN JNull ELSE x

\* the strings of the model that float() parses, with their values
NumericStrings == {"2", "50"}

StrToFloat(t) == IF t = "2" THEN Num(2) ELSE Num(50)

\* _safe_float: float(x), or default on TypeError / ValueError
_safe_float(x, default) ==
    CASE x.k = "num" -> x.v
      [] x.k = "bool" -> x.v
      [] x.k = "str" -> IF x.s \in NumericStrings THEN StrToFloat(x.s) ELSE default
      [] OTHER -> default

\* isinstance(x, (int, float)); bool is a subclass of int
IsIntOrFloat(x) == x.k \in {"num", "bool"}

\* ------------------------------------------------------------------------
\* Recipe files
\* ------------------------------------------------------------------------
\* A recipe file is a record
\*   st   : "nofile" (no file at the path), "badjson" (not JSON), "json"
\*   fmt  : "foreign" (any layout) or "dump" (as json.dump(indent=2) + "\n"
\*          of annotate_recipe_json lays it out)
\*   name : a top-level key the annotation does not touch
\*   ingredients : [k, items], k = "list" or the kind of a non-list value
\*   number_of_servings, calories_per_serving, nova_score : JSON values
\* An element of the ingredient list is [isDict, calories, nova_score];
\* isDict = FALSE stands for any element that is not a JSON object.

VARIABLES
    file,       \* the recipe file at `path`
    tmpFile,    \* TRUE iff a file exists at `path`.tmp
    ret         \* outcome of the last annotate_recipe_json(path) call

recipeVars == <<file, tmpFile, ret>>

\* The fields of one Person (src/nutrition.py) and the outcome of the last
\* call made on it.
VARIABLES
    sex,
    _weight,                \* kilograms
    _height,                \* centimetres
    _birthday,              \* a date, or None
    _pal_category,
    body_fat_percent,       \* a number, or None
    bmr_mode,
    _weight_change_rate,    \* kilograms per week
    pret                    \* what the last call returned or raised

fields == <<sex, _weight, _height, _birthday, _pal_category,
            body_fat_percent, bmr_mode, _weight_change_rate>>

personVars == <<fields, pret>>

\* One call of WhoopClient._get: the client's _max_retries, the loop variable
\* attempt, the response in hand, the number of requests sent, the status
\* codes received so far, the position in the code and the call's outcome.
VARIABLES
    _max_retries,
    attempt,
    resp,
    sent,
    log,
    wpc,
    wret

whoopVars == <<_max_retries, attempt, resp, sent, log, wpc, wret>>

vars == <<recipeVars, personVars, whoopVars>>

CaloriesValues ==
    {JAbsent, JStr("abc"), JNum(Num(0 - 5)), JNum(Num(0)),
     JNum(Num(100)), JNum(Num(300))}

NovaValues ==
    {JNull, JStr("3"), JNum(Num(1)), JNum(Num(2)), JNum(Num(4))}

ServingsValues ==
    {JAbsent, JNull, JStr("abc"), JStr("2"), JNum(Num(0 - 1)),
     JNum(Num(0)), JNum(Num(2)), JNum(Num(3)), JNum(PInf), JNum(NaN)}

NotADict == [isDict |-> FALSE, calories |-> JAbsent, nova_score |-> JAbsent]

IngredientValues ==
    {NotADict} \cup
    { [isDict |-> TRUE, calories |-> c, nova_score |-> v] :
        c \in CaloriesValues, v \in NovaValues }

SeqsUpTo(S, m) == UNION { [1..l -> S] : l \in 0..m }

IngredientsValues ==
    { [k |-> "list", items |-> its] : its \in SeqsUpTo(IngredientValues, MaxIngredients) }
    \cup { [k |-> kk, items |-> << >>] : kk \in {"absent", "null", "str"} }

NoFile ==
    [st |-> "nofile", fmt |-> "foreign", name |-> JAbsent,
     ingredients |-> [k |-> "absent", items |-> << >>],
     number_of_servings |-> JAbsent,
     calories_per_serving |-> JAbsent, nova_score |-> JAbsent]

BadJson == [NoFile EXCEPT !.st = "badjson"]

\* the two result keys of a file as found on disk: not there yet
NotAnnotated == [fmt |-> "foreign", cps |-> JAbsent, nova |-> JAbsent]

\* ... or left over from an earlier state of the recipe
Stale == [fmt |-> "dump", cps |-> JNum(Num(7)), nova |-> JNum(Num(0))]

OldResults(ings) ==
    IF Len(ings.items) <= MaxAnnotatedIngredients
    THEN {NotAnnotated, Stale}
    ELSE {NotAnnotated}

RecipeFile(ings, srv, old) ==
    [st |-> "json", fmt |-> old.fmt, name |-> JStr("abc"),
     ingredients |-> ings, number_of_servings |-> srv,
     calories_per_serving |-> old.cps, nova_score |-> old.nova]

NoReturn == [status |-> "none", msg |-> "", calories_per_serving |-> JAbsent,
             nova_score |-> JAbsent]

Raise(exc, m) == [status |-> exc, msg |-> m, calories_per_serving |-> JAbsent,
                  nova_score |-> JAbsent]

\* --- annotate_recipe_json, step by step ---------------------------------

\* the dict elements of the list, in order (non-dict entries are skipped)
DictItems(f) == SelectSeq(f.ingredients.items, LAMBDA ing : ing.isDict)

\* variant: negative calories are not clamped
IngredientCalories_NoClamp(ing) == _safe_float(Get(ing.calories), Zero)

\* cals: per ingredient, max(0.0, _safe_float(ing.get("calories"), 0.0))
IngredientCalories(ing) == FMax0(_safe_float(Get(ing.calories), Zero))

Cals(f) ==
    LET its == DictItems(f)
    IN  [i \in 1..Len(its) |-> IngredientCalories(its[i])]

\* nova: per ingredient, float(nova_val) if it is an int or float, else None
NoneF == [some |-> FALSE, v |-> Zero]

IngredientNova(ing) ==
    LET nova_val == Get(ing.nova_score)
    IN  IF IsIntOrFloat(nova_val) THEN [some |-> TRUE, v |-> nova_val.v] ELSE NoneF

Nova(f) ==
    LET its == DictItems(f)
    IN  [i \in 1..Len(its) |-> IngredientNova(its[i])]

servings_f(f) == _safe_float(Get(f.number_of_servings), NaN)

total_recipe_calories(f) == FSum(Cals(f))

calories_per_serving(f) == FDiv(total_recipe_calories(f), servings_f(f))

\* lines 95-100: the loop over zip(cals, nova), run over the first m pairs
RECURSIVE weighted_num(_, _, _)
weighted_num(cals, nova, m) ==
    IF m = 0 THEN Zero
    ELSE IF nova[m].some /\ FGt(cals[m], Zero)
         THEN FAdd(weighted_num(cals, nova, m - 1), FMul(nova[m].v, cals[m]))
         ELSE weighted_num(cals, nova, m - 1)

\* variant: the denominator counts the calories of every ingredient
RECURSIVE weighted_den_AllCalories(_, _, _)
weighted_den_AllCalories(cals, nova, m) ==
    IF m = 0 THEN Zero
    ELSE FAdd(weighted_den_AllCalories(cals, nova, m - 1), cals[m])

RECURSIVE weighted_den(_, _, _)
weighted_den(cals, nova, m) ==
    IF m = 0 THEN Zero
    ELSE IF nova[m].some /\ FGt(cals[m], Zero)
         THEN FAdd(weighted_den(cals, nova, m - 1), cals[m])
         ELSE weighted_den(cals, nova, m - 1)

\* variant: a missing nova value is collected as 0
plain_nova_vals_NoneAsZero(nova) == [i \in 1..Len(nova) |-> nova[i].v]

\* plain_nova_vals: the nova values that are not None, in order
plain_nova_vals(nova) ==
    LET present == SelectSeq(nova, LAMBDA x : x.some)
    IN  [i \in 1..Len(present) |-> present[i].v]

\* variant: 0 instead of None when no nova value is available
NovaOf_ZeroForUnknown(cals, nova) ==
    LET den == weighted_den(cals, nova, Len(cals))
        plain == plain_nova_vals(nova)
    IN  IF FGt(den, Zero)
        THEN JNum(FDiv(weighted_num(cals, nova, Len(cals)), den))
        ELSE IF plain # << >>
        THEN JNum(FDiv(FSum(plain), Num(Len(plain))))
        ELSE JNum(Zero)

\* lines 102-108: the JSON value stored under "nova_score"
NovaOf(cals, nova) ==
    LET den == weighted_den(cals, nova, Len(cals))
        plain == plain_nova_vals(nova)
    IN  IF FGt(den, Zero)
        THEN JNum(FDiv(weighted_num(cals, nova, Len(cals)), den))
        ELSE IF plain # << >>
        THEN JNum(FDiv(FSum(plain), Num(Len(plain))))
        ELSE JNull

nova_score(f) == NovaOf(Cals(f), Nova(f))

\* variant: the type of 'ingredients' is not checked
Validation_NoListCheck(f) ==
    IF f.st = "nofile" THEN Raise("FileNotFoundError", "No file found")
    ELSE IF f.st = "badjson" THEN Raise("ValueError", "Invalid JSON")
    ELSE IF Get(f.number_of_servings).k = "null"
    THEN Raise("ValueError", "'number_of_servings' is required.")
    ELSE IF ~FGt(servings_f(f), Zero)
    THEN Raise("ValueError", "'number_of_servings' must be a positive number.")
    ELSE NoReturn

\* lines 50-69: the exception the call ends with, or "none"
Validation(f) ==
    IF f.st = "nofile" THEN Raise("FileNotFoundError", "No file found")
    ELSE IF f.st = "badjson" THEN Raise("ValueError", "Invalid JSON")
    ELSE IF f.ingredients.k # "list"
    THEN Raise("ValueError", "'ingredients' must be a list.")
    ELSE IF Get(f.number_of_servings).k = "null"
    THEN Raise("ValueError", "'number_of_servings' is required.")
    ELSE IF ~FGt(servings_f(f), Zero)
    THEN Raise("ValueError", "'number_of_servings' must be a positive number.")
    ELSE NoReturn

\* variant: the results replace the dict instead of being added to it
Annotated_DropsOtherKeys(f) ==
    [f EXCEPT !.calories_per_serving = JNum(calories_per_serving(f)),
              !.nova_score = nova_score(f),
              !.name = JAbsent]

\* variant: results already in the file are kept
Annotated_KeepsExisting(f) ==
    [f EXCEPT !.calories_per_serving =
                  IF @.k = "absent" THEN JNum(calories_per_serving(f)) ELSE @,
              !.nova_score = IF @.k = "absent" THEN nova_score(f) ELSE @]

\* lines 110-112: the dict after the two assignments
Annotated(f) ==
    [f EXCEPT !.calories_per_serving = JNum(calories_per_serving(f)),
              !.nova_score = nova_score(f)]

\* annotate_recipe_json(path)
AnnotateRecipeJson ==
    LET v == Validation(file)
        data == Annotated(file)
    IN  IF v.status # "none"
        THEN /\ ret' = v
             /\ UNCHANGED <<file, tmpFile, personVars, whoopVars>>
        ELSE \* lines 114-119: write `path`.tmp, then os.replace it onto path
             /\ file' = [data EXCEPT !.fmt = "dump"]
             /\ tmpFile' = FALSE
             /\ ret' = [status |-> "ok", msg |-> "",
                        calories_per_serving |-> data.calories_per_serving,
                        nova_score |-> data.nova_score]
             /\ UNCHANGED <<personVars, whoopVars>>

InitRecipe ==
    /\ \/ file \in {NoFile, BadJson}
       \/ \E ings \in IngredientsValues, srv \in ServingsValues :
              \E old \in OldResults(ings) : file = RecipeFile(ings, srv, old)
    /\ tmpFile = FALSE
    /\ ret = NoReturn

NextRecipe == AnnotateRecipeJson

\* ------------------------------------------------------------------------
\* Properties of annotate_recipe_json
\* ------------------------------------------------------------------------

\* the call gets past validation: a JSON object whose 'ingredients' is a
\* list and whose number_of_servings converts to a number > 0
ValidRecipe(f) ==
    /\ f.st = "json"
    /\ f.ingredients.k = "list"
    /\ FGt(servings_f(f), Zero)

\* what one list element contributes to the calorie total: nothing unless it
\* is a record; 0 when calories is absent, null or not coercible; the
\* coerced number otherwise, negative numbers counted as 0
ExpectedCalories(ing) ==
    IF ~ing.isDict THEN Zero
    ELSE IF ing.calories.k \in {"absent", "null", "list", "dict"} THEN Zero
    ELSE IF ing.calories.k = "str" /\ ing.calories.s \notin NumericStrings THEN Zero
    ELSE LET c == IF ing.calories.k = "str" THEN StrToFloat(ing.calories.s)
                  ELSE ing.calories.v
         IN  IF c.n < 0 THEN Zero ELSE c

\* a record ingredient with a numeric nova_score
HasNova(ing) == ing.isDict /\ ing.nova_score.k = "num"

\* sum of the floats of a list, from its head
RECURSIVE Total(_)
Total(fs) == IF fs = << >> THEN Zero ELSE FAdd(Head(fs), Total(Tail(fs)))

\* sum of G(x) over the elements x of the list
SumOver(items, G(_)) == Total([i \in 1..Len(items) |-> G(items[i])])

ExpectedPerServing(f) ==
    FDiv(SumOver(f.ingredients.items, ExpectedCalories), servings_f(f))

\* annotate_recipe_json has been called on the file
Called == ret.status # "none"

\* C1: for a recipe whose ingredients is a list and whose number_of_servings
\* converts to s > 0, the call succeeds and stores and returns
\* calories_per_serving = (sum over the record ingredients of max(0,
\* calories_i)) / s, calories_i being 0 when absent, null or not coercible.
C1_CaloriesPerServing ==
    (Called /\ ValidRecipe(file)) =>
        /\ ret.status = "ok"
        /\ file.calories_per_serving = JNum(ExpectedPerServing(file))
        /\ ret.calories_per_serving = JNum(ExpectedPerServing(file))

\* the example of the claim: calories [-5, 100], 2 servings, 50 per serving
C1_Witness ==
    /\ ret.status = "ok"
    /\ file.number_of_servings = JNum(Num(2))
    /\ Len(file.ingredients.items) = 2
    /\ file.ingredients.items[1].calories = JNum(Num(0 - 5))
    /\ file.ingredients.items[2].calories = JNum(Num(100))
    /\ file.calories_per_serving = JNum(Num(50))

\* the ingredients that enter the weighted mean: numeric nova, calories > 0
Weighted(ing) == HasNova(ing) /\ FGt(ExpectedCalories(ing), Zero)

NovaTimesCalories(ing) ==
    IF Weighted(ing) THEN FMul(ing.nova_score.v, ExpectedCalories(ing)) ELSE Zero

WeightedCalories(ing) == IF Weighted(ing) THEN ExpectedCalories(ing) ELSE Zero

AnyItem(f, P(_)) == \E i \in 1..Len(f.ingredients.items) : P(f.ingredients.items[i])

\* C2: when some ingredient has a numeric nova_score and calories > 0, the
\* stored nova_score is sum(nova_i * calories_i) / sum(calories_i) over
\* exactly those ingredients, while calories_per_serving still counts the
\* calories of the ingredients without a numeric nova_score.
C2_WeightedNova ==
    (Called /\ ValidRecipe(file) /\ AnyItem(file, Weighted)) =>
        /\ file.nova_score =
              JNum(FDiv(SumOver(file.ingredients.items, NovaTimesCalories),
                        SumOver(file.ingredients.items, WeightedCalories)))
        /\ ret.nova_score = file.nova_score
        /\ file.calories_per_serving = JNum(ExpectedPerServing(file))

\* the example of the claim: (cal 100, nova 1), (cal 300, nova 4) gives 3.25
C2_Witness ==
    /\ ret.status = "ok"
    /\ Len(file.ingredients.items) = 2
    /\ file.ingredients.items[1].calories = JNum(Num(100))
    /\ file.ingredients.items[1].nova_score = JNum(Num(1))
    /\ file.ingredients.items[2].calories = JNum(Num(300))
    /\ file.ingredients.items[2].nova_score = JNum(Num(4))
    /\ file.nova_score = JNum(Frac(13, 4))

NovaValue(ing) == IF HasNova(ing) THEN ing.nova_score.v ELSE Zero

NovaCount(ing) == IF HasNova(ing) THEN Num(1) ELSE Zero

\* C3: when some ingredient has a numeric nova_score but none of those has
\* calories > 0, the stored nova_score is the unweighted mean of the
\* numeric nova values, whatever the calories of the other ingredients.
C3_UnweightedFallback ==
    (/\ Called
     /\ ValidRecipe(file)
     /\ AnyItem(file, HasNova)
     /\ ~AnyItem(file, Weighted)) =>
        /\ file.nova_score =
              JNum(FDiv(SumOver(file.ingredients.items, NovaValue),
                        SumOver(file.ingredients.items, NovaCount)))
        /\ ret.nova_score = file.nova_score

\* the example of the claim: (cal 0, nova 2), (cal 0, nova 4) gives 3.0
C3_Witness ==
    /\ ret.status = "ok"
    /\ Len(file.ingredients.items) = 2
    /\ file.ingredients.items[1].calories = JNum(Num(0))
    /\ file.ingredients.items[1].nova_score = JNum(Num(2))
    /\ file.ingredients.items[2].calories = JNum(Num(0))
    /\ file.ingredients.items[2].nova_score = JNum(Num(4))
    /\ file.nova_score = JNum(Num(3))

\* C4: the stored nova_score is null if and only if no record ingredient
\* has a numeric nova_score (the empty list included); it is then not the
\* number 0, and calories_per_serving is still a number.
C4_NullIffNoNova ==
    (Called /\ ValidRecipe(file)) =>
        /\ (file.nova_score.k = "null") <=> ~AnyItem(file, HasNova)
        /\ ~AnyItem(file, HasNova) =>
              (file.nova_score # JNum(Zero) /\ ret.nova_score = JNull)
        /\ file.nova_score.k \in {"null", "num"}
        /\ file.calories_per_serving.k = "num"
        /\ ~IsNaN(file.calories_per_serving.v)

\* a recipe whose only nova_score is a non-numeric value, with calories
C4_Witness ==
    /\ ret.status = "ok"
    /\ file.nova_score = JNull
    /\ Len(file.ingredients.items) = 2
    /\ file.ingredients.items[1].nova_score = JStr("3")
    /\ file.ingredients.items[1].calories = JNum(Num(100))
    /\ file.calories_per_serving.k = "num"

\* number_of_servings is missing, null, not coercible to a number or <= 0,
\* or 'ingredients' is not a list
InvalidRecipe(f) ==
    /\ f.st = "json"
    /\ \/ f.ingredients.k # "list"
       \/ f.number_of_servings.k \in {"absent", "null", "list", "dict"}
       \/ f.number_of_servings.k = "str" /\ f.number_of_servings.s \notin NumericStrings
       \/ /\ f.number_of_servings.k \in {"num", "bool"}
          /\ ~IsNaN(f.number_of_servings.v)
          /\ ~FGt(f.number_of_servings.v, Zero)

\* C5: on such a recipe the call raises ValueError and leaves no partial
\* output: the file is unchanged, no temporary file appears, and no
\* calories_per_serving or nova_score is written or returned.
C5_ErrorLeavesNoOutput ==
    [][InvalidRecipe(file) =>
          /\ ret'.status = "ValueError"
          /\ file' = file
          /\ tmpFile' = tmpFile
          /\ ret'.calories_per_serving = JAbsent
          /\ ret'.nova_score = JAbsent]_recipeVars

\* a rejected call on a recipe with zero servings and a non-empty list
C5_Witness ==
    /\ ret.status = "ValueError"
    /\ file.number_of_servings = JNum(Num(0))
    /\ Len(file.ingredients.items) = 2
    /\ file.calories_per_serving = JAbsent
    /\ file.fmt = "foreign"
    /\ ~tmpFile

\* C6: the only serving counts the call accepts are finite numbers > 0;
\* +inf and NaN are rejected.
C6_OnlyFiniteServings ==
    ret.status = "ok" => (IsFin(servings_f(file)) /\ FGt(servings_f(file), Zero))

Real(q) == [c |-> q, l |-> Zero, p |-> Zero]

RAdd(a, b) == [c |-> FAdd(a.c, b.c), l |-> FAdd(a.l, b.l), p |-> FAdd(a.p, b.p)]

\* q * a for a rational q
RScale(q, a) == [c |-> FMul(q, a.c), l |-> FMul(q, a.l), p |-> FMul(q, a.p)]

RSub(a, b) == RAdd(a, RScale(Num(0 - 1), b))

\* a * LB, for a without an LB part
TimesLB(a) == [c |-> a.p, l |-> a.c, p |-> Zero]

\* a / LB, for a without a 1/LB part
OverLB(a) == [c |-> a.l, l |-> Zero, p |-> a.c]

\* the pound in kilograms, 0.45359237: the digits of 45359237 in groups of
\* four, the lowest group first
PoundKgDigits == <<9237, 4535>>

\* centimetres per inch
CmPerInch == Frac(254, 100)

\* variant: centimetres to inches multiplies by 2.54 as well
Convert_InchesTimes(x, units, target) ==
    IF units = target THEN x
    ELSE CASE units = "lb" /\ target = "kg" -> [c |-> x.p, l |-> x.c, p |-> Zero]
           [] units = "kg" /\ target = "lb" -> [c |-> x.l, l |-> Zero, p |-> x.c]
           [] units = "lb/week" /\ target = "kg/week" -> [c |-> x.p, l |-> x.c, p |-> Zero]
           [] units = "kg/week" /\ target = "lb/week" -> [c |-> x.l, l |-> Zero, p |-> x.c]
           [] units = "in" /\ target = "cm" -> RScale(CmPerInch, x)
           [] units = "cm" /\ target = "in" -> RScale(CmPerInch, x)

\* Quantity(x, units).to(target).magnitude for the units Person uses
Convert(x, units, target) ==
    IF units = target THEN x
    ELSE CASE units = "lb" /\ target = "kg" -> TimesLB(x)
           [] units = "kg" /\ target = "lb" -> OverLB(x)
           [] units = "lb/week" /\ target = "kg/week" -> TimesLB(x)
           [] units = "kg/week" /\ target = "lb/week" -> OverLB(x)
           [] units = "in" /\ target = "cm" -> RScale(CmPerInch, x)
           [] units = "cm" /\ target = "in" -> RScale(FDiv(Num(1), CmPerInch), x)

\* ------------------------------------------------------------------------
\* Person
\* ------------------------------------------------------------------------

\* date.today(), as a day number
Today == 20000

\* a value given as birthday: isDate is isinstance(value, date), ord the day
\* number, time whether the value is a datetime (a subclass of date)
NoDate == [isDate |-> FALSE, time |-> FALSE, ord |-> 0]

Date(o) == [isDate |-> TRUE, time |-> FALSE, ord |-> o]

DateTime(o) == [isDate |-> TRUE, time |-> TRUE, ord |-> o]

NoneR == [some |-> FALSE, v |-> Zero]

Some(q) == [some |-> TRUE, v |-> q]

BmrModes == {"mifflin_st_jeor", "harris_benedict_revised", "katch_mcardle"}

PalCategories == {"sedentary", "low active", "active", "very active", "athlete"}

\* what a call returned (status "ok": a number in value or a string in
\* text) or the exception it raised
Returned(x) == [status |-> "ok", msg |-> "", value |-> x, text |-> ""]

ReturnedStr(t) == [status |-> "ok", msg |-> "", value |-> Real(Zero), text |-> t]

Raised(exc, m) == [status |-> exc, msg |-> m, value |-> Real(Zero), text |-> ""]

\* the object the methods below receive as `self`
Self ==
    [sex |-> sex, _weight |-> _weight, _height |-> _height,
     _birthday |-> _birthday, _pal_category |-> _pal_category,
     body_fat_percent |-> body_fat_percent, bmr_mode |-> bmr_mode,
     _weight_change_rate |-> _weight_change_rate]

\* variant: the 7700 kcal of a kilogram are not spread over the seven days
_get_daily_caloric_deviation_PerWeek(self) ==
    IF self._weight_change_rate = Real(Zero) THEN Real(Zero)
    ELSE RScale(Num(7700), Convert(self._weight_change_rate, "kg/week", "kg/week"))

\* lines 41-46
_get_daily_caloric_deviation(self) ==
    IF self._weight_change_rate = Real(Zero) THEN Real(Zero)
    ELSE RScale(FDiv(Num(7700), Num(7)), Convert(self._weight_change_rate, "kg/week", "kg/week"))

\* lines 48-58: pal_values.get(self._pal_category, 1.0)
pal(self) ==
    CASE self._pal_category = "sedentary" -> Frac(12, 10)
      [] self._pal_category = "low active" -> Frac(15, 10)
      [] self._pal_category = "active" -> Frac(175, 100)
      [] self._pal_category = "very active" -> Frac(22, 10)
      [] self._pal_category = "athlete" -> Frac(25, 10)
      [] OTHER -> Num(1)

\* lines 32-35: the function under the weight_change_rate property
weight_change_rate(self, units) == Convert(self._weight_change_rate, "kg/week", units)

\* lines 66-68
get_pal_category(self) == self._pal_category

\* lines 70-77
age_years(self) ==
    IF self._birthday.isDate
    THEN IF self._birthday.time
         THEN \* line 75: date - datetime is not defined
              Raised("TypeError", "unsupported operand type(s) for -: 'datetime.date' and 'datetime.datetime'")
         ELSE Returned(Real(FDiv(Num(Today - self._birthday.ord), Frac(36525, 100))))
    ELSE Raised("ValueError", "Birthday is not set, cannot calculate age.")

\* lines 91-93 and 99-101
get_weight(self, units) == Convert(self._weight, "kg", units)

get_height(self, units) == Convert(self._height, "cm", units)

\* variant: the male offset for either sex
bmr_mifflin_st_jeor_MaleOffset(self) ==
    LET age == age_years(self)
    IN  IF age.status # "ok" THEN age
        ELSE Returned(RAdd(RSub(RAdd(RScale(Num(10), get_weight(self, "kg")),
                                     RScale(Frac(625, 100), get_height(self, "cm"))),
                                RScale(Num(5), age.value)),
                           Real(Num(5))))

\* lines 125-129
bmr_mifflin_st_jeor(self) ==
    LET s == IF self.sex = "male" THEN 5 ELSE 0 - 161
        age == age_years(self)
    IN  IF age.status # "ok" THEN age
        ELSE Returned(RAdd(RSub(RAdd(RScale(Num(10), get_weight(self, "kg")),
                                     RScale(Frac(625, 100), get_height(self, "cm"))),
                                RScale(Num(5), age.value)),
                           Real(Num(s))))

\* lines 131-137, called as bmr_harris_benedict_revised(self, p)
bmr_harris_benedict_revised(self, p) ==
    LET age == age_years(p)
    IN  IF age.status # "ok" THEN age
        ELSE IF p.sex = "male"
        THEN Returned(RAdd(RSub(RAdd(RScale(Frac(13397, 1000), get_weight(self, "kg")),
                                     RScale(Frac(4799, 1000), get_height(self, "cm"))),
                                RScale(Frac(5677, 1000), age.value)),
                           Real(Frac(88362, 1000))))
        ELSE Returned(RAdd(RSub(RAdd(RScale(Frac(9247, 1000), get_weight(self, "kg")),
                                     RScale(Frac(3098, 1000), get_height(self, "cm"))),
                                RScale(Frac(4330, 1000), age.value)),
                           Real(Frac(447593, 1000))))

\* lines 139-148, called as bmr_katch_mcardle(self, p)
bmr_katch_mcardle(self, p) ==
    IF ~p.body_fat_percent.some
    THEN Raised("ValueError", "Katch-McArdle requires body_fat_percent.")
    ELSE LET ffm_kg == RScale(FSub(Num(1), FDiv(p.body_fat_percent.v, Num(100))),
                              get_weight(self, "kg"))
         IN  Returned(RAdd(Real(Num(370)), RScale(Frac(216, 10), ffm_kg)))

\* a method that takes (self, p) called with self alone
MissingArgument ==
    Raised("TypeError", "missing 1 required positional argument: 'p'")

\* lines 112-122: the bmr property
bmr(self) ==
    IF self.bmr_mode = "mifflin_st_jeor" THEN bmr_mifflin_st_jeor(self)
    ELSE IF self.bmr_mode = "harris_benedict_revised"
    THEN MissingArgument    \* line 118: self.bmr_harris_benedict_revised()
    ELSE IF self.bmr_mode = "katch_mcardle"
    THEN MissingArgument    \* line 120: self.bmr_katch_mcardle()
    ELSE Raised("ValueError", "Unknown BMR mode")

\* lines 150-160: the tdee property
tdee(self) ==
    IF ~FGt(pal(self), Zero) THEN Raised("ValueError", "PAL must be > 0.")
    ELSE LET b == bmr(self)
         IN  IF b.status # "ok" THEN b
             ELSE Returned(RScale(pal(self), b.value))

\* lines 162-164
daily_tci(self) ==
    LET t == tdee(self)
    IN  IF t.status # "ok" THEN t
        ELSE Returned(RAdd(t.value, _get_daily_caloric_deviation(self)))

\* --- calls on the Person -------------------------------------------------

\* the arguments of a call: a string, up to two numbers and a unit tag
NoArg == [text |-> "", num |-> 0, num2 |-> 0, units |-> ""]

Arg(n, u) == [text |-> "", num |-> n, num2 |-> 0, units |-> u]

\* the last call made on the Person: its name, arguments and outcome
NoCall ==
    [op |-> "none", arg |-> NoArg, status |-> "none", msg |-> "",
     value |-> Real(Zero), text |-> ""]

OutcomeOf(name, a, r) ==
    [op |-> name, arg |-> a, status |-> r.status, msg |-> r.msg,
     value |-> r.value, text |-> r.text]

Outcome(name, r) == OutcomeOf(name, NoArg, r)

\* the arguments the calls are made with
WeightArgs == {<<93, "kg">>, <<200, "lb">>}

HeightArgs == {<<188, "cm">>, <<74, "in">>}

FeetInchesArgs == {<<6, 2>>}

RateArgs == {<<0 - 1, "kg/week">>, <<2, "lb/week">>}

BirthdayArgs == {Date(Today - 7305), DateTime(Today - 9253), NoDate}

CategoryArgs == PalCategories \cup {"couch potato"}

BodyFatValues == {NoneR, Some(Num(20))}

\* the _pal_category a Person is constructed with: the default, or what the
\* caller passes, which the generated __init__ stores as it is
ConstructedCategories == {"sedentary", "couch potato"}

\* lines 37-39
set_weight_change_rate(rate, units) ==
    /\ _weight_change_rate' = Convert(Real(Num(rate)), units, "kg/week")
    /\ pret' = OutcomeOf("set_weight_change_rate", Arg(rate, units), Returned(Real(Zero)))
    /\ UNCHANGED <<recipeVars, whoopVars, sex, _weight, _height, _birthday, _pal_category,
                   body_fat_percent, bmr_mode>>

\* variant: the category is stored before it is checked
set_pal_category_StoreThenCheck(category) ==
    /\ _pal_category' = category
    /\ pret' = OutcomeOf("set_pal_category", [NoArg EXCEPT !.text = category],
                        IF category \notin PalCategories
                        THEN Raised("ValueError", "Invalid PAL category")
                        ELSE Returned(Real(Zero)))
    /\ UNCHANGED <<recipeVars, whoopVars, sex, _weight, _height, _birthday, body_fat_percent,
                   bmr_mode, _weight_change_rate>>

\* lines 60-64
set_pal_category(category) ==
    IF category \notin PalCategories
    THEN /\ pret' = OutcomeOf("set_pal_category", [NoArg EXCEPT !.text = category],
                             Raised("ValueError", "Invalid PAL category"))
         /\ UNCHANGED <<fields, recipeVars, whoopVars>>
    ELSE /\ _pal_category' = category
         /\ pret' = OutcomeOf("set_pal_category", [NoArg EXCEPT !.text = category],
                             Returned(Real(Zero)))
         /\ UNCHANGED <<recipeVars, whoopVars, sex, _weight, _height, _birthday, body_fat_percent,
                        bmr_mode, _weight_change_rate>>

\* lines 84-89: the birthday setter; NoDate stands for a value that is not
\* a date, such as a string
set_birthday(value) ==
    IF ~value.isDate
    THEN /\ pret' = Outcome("birthday", Raised("ValueError", "Birthday must be a date object."))
         /\ UNCHANGED <<fields, recipeVars, whoopVars>>
    ELSE /\ _birthday' = value
         /\ pret' = Outcome("birthday", Returned(Real(Zero)))
         /\ UNCHANGED <<recipeVars, whoopVars, sex, _weight, _height, _pal_category, body_fat_percent,
                        bmr_mode, _weight_change_rate>>

\* lines 95-97
set_weight(weight, units) ==
    /\ _weight' = Convert(Real(Num(weight)), units, "kg")
    /\ pret' = OutcomeOf("set_weight", Arg(weight, units), Returned(Real(Zero)))
    /\ UNCHANGED <<recipeVars, whoopVars, sex, _height, _birthday, _pal_category, body_fat_percent,
                   bmr_mode, _weight_change_rate>>

\* lines 103-105
set_height(height, units) ==
    /\ _height' = Convert(Real(Num(height)), units, "cm")
    /\ pret' = OutcomeOf("set_height", Arg(height, units), Returned(Real(Zero)))
    /\ UNCHANGED <<recipeVars, whoopVars, sex, _weight, _birthday, _pal_category, body_fat_percent,
                   bmr_mode, _weight_change_rate>>

\* lines 107-110
set_height_feet_inches(feet, inches) ==
    LET total_inches == feet * 12 + inches
    IN  /\ _height' = Convert(Real(Num(total_inches)), "in", "cm")
        /\ pret' = OutcomeOf("set_height_feet_inches",
                             [NoArg EXCEPT !.num = feet, !.num2 = inches],
                             Returned(Real(Zero)))
        /\ UNCHANGED <<recipeVars, whoopVars, sex, _weight, _birthday, _pal_category, body_fat_percent,
                       bmr_mode, _weight_change_rate>>

\* the reads: a property or method that only computes changes no field

ReadAgeYears ==
    /\ pret' = Outcome("age_years", age_years(Self))
    /\ UNCHANGED <<fields, recipeVars, whoopVars>>

ReadBmr ==
    /\ pret' = Outcome("bmr", bmr(Self))
    /\ UNCHANGED <<fields, recipeVars, whoopVars>>

ReadTdee ==
    /\ pret' = Outcome("tdee", tdee(Self))
    /\ UNCHANGED <<fields, recipeVars, whoopVars>>

ReadDailyTci ==
    /\ pret' = Outcome("daily_tci", daily_tci(Self))
    /\ UNCHANGED <<fields, recipeVars, whoopVars>>

\* person.get_weight(units)
ReadWeight(units) ==
    /\ pret' = OutcomeOf("get_weight", Arg(0, units), Returned(get_weight(Self, units)))
    /\ UNCHANGED <<fields, recipeVars, whoopVars>>

\* person.get_height(units)
ReadHeight(units) ==
    /\ pret' = OutcomeOf("get_height", Arg(0, units), Returned(get_height(Self, units)))
    /\ UNCHANGED <<fields, recipeVars, whoopVars>>

\* person.weight_change_rate: reading the property calls the function with
\* self alone, so units is its default
ReadWeightChangeRate ==
    /\ pret' = Outcome("weight_change_rate", Returned(weight_change_rate(Self, "kg/week")))
    /\ UNCHANGED <<fields, recipeVars, whoopVars>>

\* person.weight_change_rate(units): the property is read first and the
\* float it gives is then called with the unit tag
CallWeightChangeRate(units) ==
    /\ pret' = OutcomeOf("weight_change_rate", Arg(0, units),
                        Raised("TypeError", "'float' object is not callable"))
    /\ UNCHANGED <<fields, recipeVars, whoopVars>>

\* person.pal
ReadPal ==
    /\ pret' = Outcome("pal", Returned(Real(pal(Self))))
    /\ UNCHANGED <<fields, recipeVars, whoopVars>>

\* person.get_pal_category()
ReadPalCategory ==
    /\ pret' = Outcome("get_pal_category", ReturnedStr(get_pal_category(Self)))
    /\ UNCHANGED <<fields, recipeVars, whoopVars>>

\* person.bmr_harris_benedict_revised(person)
CallBmrHarrisBenedictRevised ==
    /\ pret' = Outcome("bmr_harris_benedict_revised",
                       bmr_harris_benedict_revised(Self, Self))
    /\ UNCHANGED <<fields, recipeVars, whoopVars>>

\* person.bmr_katch_mcardle(person)
CallBmrKatchMcardle ==
    /\ pret' = Outcome("bmr_katch_mcardle", bmr_katch_mcardle(Self, Self))
    /\ UNCHANGED <<fields, recipeVars, whoopVars>>

\* lines 20-30: Person(sex, _pal_category=..., body_fat_percent=...,
\* bmr_mode=...), the other fields at their defaults
InitPerson ==
    /\ sex \in {"male", "female"}
    /\ _weight = Real(Zero)
    /\ _height = Real(Zero)
    /\ _birthday = NoDate
    /\ _pal_category \in ConstructedCategories
    /\ body_fat_percent \in BodyFatValues
    /\ bmr_mode \in BmrModes
    /\ _weight_change_rate = Real(Zero)
    /\ pret = NoCall

NextPerson ==
    \/ \E a \in RateArgs : set_weight_change_rate(a[1], a[2])
    \/ \E c \in CategoryArgs : set_pal_category(c)
    \/ \E d \in BirthdayArgs : set_birthday(d)
    \/ \E a \in WeightArgs : set_weight(a[1], a[2])
    \/ \E a \in HeightArgs : set_height(a[1], a[2])
    \/ \E a \in FeetInchesArgs : set_height_feet_inches(a[1], a[2])
    \/ \E u \in {"kg", "lb"} : ReadWeight(u)
    \/ \E u \in {"cm", "in"} : ReadHeight(u)
    \/ ReadWeightChangeRate
    \/ \E u \in {"kg/week", "lb/week"} : CallWeightChangeRate(u)
    \/ ReadAgeYears
    \/ ReadPal
    \/ ReadPalCategory
    \/ ReadBmr
    \/ ReadTdee
    \/ ReadDailyTci
    \/ CallBmrHarrisBenedictRevised
    \/ CallBmrKatchMcardle

\* ------------------------------------------------------------------------
\* WhoopClient._get
\* ------------------------------------------------------------------------

\* the largest _max_retries a client is made with
MaxRetries == 3

\* an HTTP response: its status code, its Retry-After header ("" when the
\* header is absent, else its text) and its body ("" when the body is not
\* JSON, else the document)
Response(code, retryAfter, body) ==
    [status_code |-> code, retry_after |-> retryAfter, body |-> body]

NoResponse == Response(0, "", "")

\* the responses the server gives
Responses ==
    {Response(200, "", "cycles"), Response(200, "", "records"), Response(204, "", ""),
     Response(404, "", "error"), Response(500, "", ""),
     Response(429, "", "error"), Response(429, "2", ""),
     Response(429, "Wed, 21 Oct 2026 07:28:00 GMT", "")}

NoOutcome == [status |-> "none", msg |-> "", body |-> ""]

WReturn(doc) == [status |-> "ok", msg |-> "", body |-> doc]

WRaise(exc, m) == [status |-> exc, msg |-> m, body |-> ""]

\* variant: every 429 is answered by another round of the loop
ShouldRetry_Any429(r, a, n) == r.status_code = 429

\* line 52: resp.status_code == 429 and attempt < self._max_retries - 1
ShouldRetry(r, a, n) == r.status_code = 429 /\ a < n - 1

\* line 54: float(resp.headers.get("Retry-After", self._retry_backoff_s))
\* has a value when the header is absent or a number
SleepParses(r) == r.retry_after \in {"", "2"}

\* line 57: raise_for_status raises for the codes 400..599
IsErrorStatus(code) == code >= 400 /\ code < 600

\* line 50: the head of `for attempt in range(self._max_retries)`; attempt
\* holds the next value of the loop variable.  When the range is used up
\* the loop ends and line 60 raises.
ForAttempt ==
    /\ wpc = "for"
    /\ IF attempt < _max_retries
       THEN /\ wpc' = "get"
            /\ wret' = wret
       ELSE /\ wpc' = "done"
            /\ wret' = WRaise("RuntimeError", "Unreachable")
    /\ UNCHANGED <<_max_retries, attempt, resp, sent, log, recipeVars, personVars>>

\* line 51: requests.get returns a response
RequestsGet ==
    /\ wpc = "get"
    /\ \E r \in Responses :
          /\ resp' = r
          /\ log' = Append(log, r.status_code)
    /\ sent' = sent + 1
    /\ wpc' = "check"
    /\ UNCHANGED <<_max_retries, attempt, wret, recipeVars, personVars>>

\* line 51: requests.get raises (no connection, or timeout_s has passed)
RequestsGetFails ==
    /\ wpc = "get"
    /\ sent' = sent + 1
    /\ wpc' = "done"
    /\ wret' = WRaise("RequestException", "")
    /\ UNCHANGED <<_max_retries, attempt, resp, log, recipeVars, personVars>>

\* lines 52-56: the 429 branch: sleep, then the next round of the loop
Backoff ==
    /\ wpc = "check"
    /\ ShouldRetry(resp, attempt, _max_retries)
    /\ IF SleepParses(resp)
       THEN /\ attempt' = attempt + 1
            /\ wpc' = "for"
            /\ wret' = wret
       ELSE /\ attempt' = attempt
            /\ wpc' = "done"
            /\ wret' = WRaise("ValueError", "could not convert string to float")
    /\ UNCHANGED <<_max_retries, resp, sent, log, recipeVars, personVars>>

\* lines 57-58: resp.raise_for_status(); return resp.json()
RaiseOrReturn ==
    /\ wpc = "check"
    /\ ~ShouldRetry(resp, attempt, _max_retries)
    /\ wpc' = "done"
    /\ wret' = IF IsErrorStatus(resp.status_code) THEN WRaise("HTTPError", "")
               ELSE IF resp.body = "" THEN WRaise("JSONDecodeError", "")
               ELSE WReturn(resp.body)
    /\ UNCHANGED <<_max_retries, attempt, resp, sent, log, recipeVars, personVars>>

\* a client with the given _max_retries, at the entry of _get
InitWhoop(n) ==
    /\ _max_retries = n
    /\ attempt = 0
    /\ resp = NoResponse
    /\ sent = 0
    /\ log = <<>>
    /\ wpc = "for"
    /\ wret = NoOutcome

NextWhoop ==
    \/ ForAttempt
    \/ RequestsGet
    \/ RequestsGetFails
    \/ Backoff
    \/ RaiseOrReturn

\* ------------------------------------------------------------------------
\* Specifications
\* ------------------------------------------------------------------------

\* a recipe file and the calls of annotate_recipe_json on it; no Person is
\* involved
InitRecipeOnly ==
    /\ InitRecipe
    /\ InitPerson
    /\ sex = "male"
    /\ _pal_category = "sedentary"
    /\ body_fat_percent = NoneR
    /\ bmr_mode = "mifflin_st_jeor"
    /\ InitWhoop(MaxRetries)

SpecRecipe == InitRecipeOnly /\ [][NextRecipe]_vars

\* one Person and the calls made on it; no recipe file is involved
InitPersonOnly ==
    /\ InitPerson
    /\ file = NoFile
    /\ tmpFile = FALSE
    /\ ret = NoReturn
    /\ InitWhoop(MaxRetries)

SpecPerson == InitPersonOnly /\ [][NextPerson]_vars

\* one call of _get on a client made with any _max_retries from 0 up; the
\* call runs on once started: every step that can be taken is taken
InitWhoopOnly ==
    /\ \E n \in 0..MaxRetries : InitWhoop(n)
    /\ InitPerson
    /\ sex = "male"
    /\ _pal_category = "sedentary"
    /\ body_fat_percent = NoneR
    /\ bmr_mode = "mifflin_st_jeor"
    /\ file = NoFile
    /\ tmpFile = FALSE
    /\ ret = NoReturn

SpecWhoop == InitWhoopOnly /\ [][NextWhoop]_vars /\ WF_vars(NextWhoop)

\* ------------------------------------------------------------------------
\* Properties of Person
\* ------------------------------------------------------------------------

\* days between the stored birthday and today
AgeDays == Today - _birthday.ord

\* 10 * weight_kg + 6.25 * height_cm - 5 * age_years + offset over the
\* stored weight and height, age_years being AgeDays / 365.25
MifflinStJeor ==
    RAdd(RAdd(RScale(Num(10), _weight), RScale(Frac(25, 4), _height)),
         Real(FSub(Num(IF sex = "male" THEN 5 ELSE 0 - 161), Frac(20 * AgeDays, 1461))))

\* C8: in mifflin_st_jeor mode with a birthday set, bmr returns
\* 10*weight_kg + 6.25*height_cm - 5*age_years + (5 if male else -161),
\* over the stored kilograms and centimetres, whatever unit they were set in.
\* The birthday is a calendar date, so that age_years has a value.
C8_MifflinStJeor ==
    (/\ pret.op = "bmr"
     /\ bmr_mode = "mifflin_st_jeor"
     /\ _birthday.isDate
     /\ ~_birthday.time) =>
        (pret.status = "ok" /\ pret.value = MifflinStJeor)

\* a woman of 20 years, weight set as 200 lb and height as 74 in:
\* 2000 * LB + 6.25 * 187.96 - 100 - 161
C8_Witness ==
    /\ pret.op = "bmr"
    /\ pret.status = "ok"
    /\ sex = "female"
    /\ _weight = [c |-> Zero, l |-> Num(200), p |-> Zero]
    /\ _height = Real(Frac(18796, 100))
    /\ AgeDays = 7305
    /\ pret.value = [c |-> Frac(91375, 100), l |-> Num(2000), p |-> Zero]

\* C9: bmr dispatches on bmr_mode for the other two modes as well: the
\* revised Harris-Benedict formula when a birthday (a calendar date) is set, and
\* 370 + 21.6 * weight_kg * (1 - body_fat_percent/100) in katch_mcardle
\* mode when body_fat_percent is set, with or without a birthday.
C9_BmrOtherModes ==
    /\ (/\ pret.op = "bmr"
        /\ bmr_mode = "harris_benedict_revised"
        /\ _birthday.isDate
        /\ ~_birthday.time) =>
          /\ pret.status = "ok"
          /\ pret.value =
                IF sex = "male"
                THEN RAdd(RAdd(RScale(Frac(13397, 1000), _weight),
                               RScale(Frac(4799, 1000), _height)),
                          Real(FSub(Frac(88362, 1000), Frac(5677 * 4 * AgeDays, 1461000))))
                ELSE RAdd(RAdd(RScale(Frac(9247, 1000), _weight),
                               RScale(Frac(3098, 1000), _height)),
                          Real(FSub(Frac(447593, 1000), Frac(4330 * 4 * AgeDays, 1461000))))
    /\ (pret.op = "bmr" /\ bmr_mode = "katch_mcardle" /\ body_fat_percent.some) =>
          /\ pret.status = "ok"
          /\ pret.value =
                RAdd(Real(Num(370)),
                     RScale(FMul(Frac(216, 10),
                                 FSub(Num(1), FDiv(body_fat_percent.v, Num(100)))),
                            _weight))

\* C10: in katch_mcardle mode without body_fat_percent, bmr, tdee and
\* daily_tci fail with the error that names the missing body_fat_percent.
C10_KatchNeedsBodyFat ==
    (/\ pret.op \in {"bmr", "tdee", "daily_tci"}
     /\ bmr_mode = "katch_mcardle"
     /\ ~body_fat_percent.some) =>
        /\ pret.status = "ValueError"
        /\ pret.msg = "Katch-McArdle requires body_fat_percent."

\* C11: without a birthday age_years fails with the missing-birthday error,
\* and so do bmr, tdee and daily_tci in mifflin_st_jeor mode; once the
\* birthday setter has succeeded age_years returns a value in every later
\* state; a birthday setter call either stores a date or fails and leaves
\* the stored birthday as it was, so a value that is not a date is never
\* stored.
C11_BirthdayAndAge ==
    [][/\ (/\ ~_birthday'.isDate
           /\ \/ pret'.op = "age_years"
              \/ /\ pret'.op \in {"bmr", "tdee", "daily_tci"}
                 /\ bmr_mode' = "mifflin_st_jeor") =>
              /\ pret'.status = "ValueError"
              /\ pret'.msg = "Birthday is not set, cannot calculate age."
       /\ (_birthday'.isDate /\ pret'.op = "age_years") => pret'.status = "ok"
       /\ (pret'.op = "birthday") =>
              \/ pret'.status = "ok" /\ _birthday'.isDate
              \/ pret'.status = "ValueError" /\ _birthday' = _birthday]_vars

\* the fixed table of the multipliers
PalTable(c) ==
    CASE c = "sedentary" -> Frac(12, 10)
      [] c = "low active" -> Frac(15, 10)
      [] c = "active" -> Frac(175, 100)
      [] c = "very active" -> Frac(22, 10)
      [] c = "athlete" -> Frac(25, 10)

FiveCategories == {"sedentary", "low active", "active", "very active", "athlete"}

\* C12: set_pal_category(c) with c one of the five categories makes pal the
\* table value of c and get_pal_category return c; with any other c it
\* raises ValueError and leaves the stored category, and so pal, unchanged.
C12_SetPalCategory ==
    [][/\ (pret'.op = "set_pal_category") =>
          IF pret'.arg.text \in FiveCategories
          THEN /\ pret'.status = "ok"
               /\ pal(Self') = PalTable(pret'.arg.text)
               /\ get_pal_category(Self') = pret'.arg.text
          ELSE /\ pret'.status = "ValueError"
               /\ _pal_category' = _pal_category
               /\ pal(Self') = pal(Self)
       /\ (pret'.op = "pal") => pret'.value = Real(pal(Self'))
       /\ (pret'.op = "get_pal_category") => pret'.text = _pal_category']_vars

\* a call with an unknown category has failed and "very active", stored by
\* an earlier call, is still the category
C12_Witness ==
    /\ pret.op = "set_pal_category"
    /\ pret.arg.text = "couch potato"
    /\ pret.status = "ValueError"
    /\ _pal_category = "very active"
    /\ pal(Self) = Frac(22, 10)

\* the rate a set_weight_change_rate(x, units) call asks for, in kg/week
RateKgPerWeek(x, units) ==
    IF units = "kg/week" THEN Real(Num(x)) ELSE [c |-> Zero, l |-> Num(x), p |-> Zero]

\* bmr has a value in the current state
BmrDefined == bmr(Self).status = "ok"

\* C13: wherever bmr has a value, tdee is bmr * pal and daily_tci() is
\* tdee + rate * 7700 / 7 with the rate in kg/week that the last
\* set_weight_change_rate stored (0 before any call); both are computed
\* from the fields as they are at the read.
C13_TdeeAndDailyTci ==
    /\ (pret.op = "set_weight_change_rate") =>
          _weight_change_rate = RateKgPerWeek(pret.arg.num, pret.arg.units)
    /\ (pret.op = "tdee" /\ BmrDefined) =>
          /\ pret.status = "ok"
          /\ pret.value = RScale(pal(Self), bmr(Self).value)
    /\ (pret.op = "daily_tci" /\ BmrDefined) =>
          /\ pret.status = "ok"
          /\ pret.value =
                RAdd(RScale(pal(Self), bmr(Self).value),
                     RScale(Num(1100), _weight_change_rate))

\* a man of 20 years, 93 kg and 188 cm, active, losing 1 kg a week:
\* bmr 2010, tdee 3517.5, target 3517.5 - 1100
C13_Witness ==
    /\ pret.op = "daily_tci"
    /\ pret.status = "ok"
    /\ sex = "male"
    /\ _weight = Real(Num(93))
    /\ _height = Real(Num(188))
    /\ _birthday = Date(Today - 7305)
    /\ _pal_category = "active"
    /\ _weight_change_rate = Real(Num(0 - 1))
    /\ tdee(Self).value = Real(Frac(35175, 10))
    /\ pret.value = Real(Frac(24175, 10))

\* 45359237 * 22046226218, the product of the pound in kilograms and the
\* factor 2.2046226218, both without their decimal point, as five groups of
\* four digits, the lowest first; 1 would be 10^18
PoundTimesFactor ==
    LET a == PoundKgDigits
        b == <<6218, 4622, 220>>
        c0 == a[1] * b[1]
        c1 == a[1] * b[2] + a[2] * b[1] + (c0 \div 10000)
        c2 == a[1] * b[3] + a[2] * b[2] + (c1 \div 10000)
        c3 == a[2] * b[3] + (c2 \div 10000)
    IN  <<c0 % 10000, c1 % 10000, c2 % 10000, c3 % 10000, c3 \div 10000>>

\* x pounds are x / 2.2046226218 kg within 1e-9: the product above lies
\* between 10^18 - 10^9 and 10^18
PoundAgrees ==
    /\ PoundTimesFactor[5] = 99
    /\ PoundTimesFactor[4] = 9999
    /\ PoundTimesFactor[3] >= 9990

C15_RateGetterWithUnit ==
    (pret.op = "weight_change_rate") =>
        /\ pret.status = "ok"
        /\ pret.value = IF pret.arg.units = "lb/week"
                        THEN [c |-> _weight_change_rate.l, l |-> Zero,
                              p |-> _weight_change_rate.c]
                        ELSE _weight_change_rate

\* C16: in every state a Person can reach, pal is one of the five table
\* values, the one of the stored category, and never 1.0; tdee never fails
\* with its PAL check.
C16_PalInTable ==
    /\ pal(Self) \in {PalTable(c) : c \in FiveCategories}
    /\ pal(Self) # Num(1)
    /\ _pal_category \in FiveCategories => pal(Self) = PalTable(_pal_category)
    /\ (pret.op = "pal") => pret.value \in {Real(PalTable(c)) : c \in FiveCategories}
    /\ (pret.op \in {"tdee", "daily_tci"}) => pret.msg # "PAL must be > 0."

\* the recipe file without the two result keys
WithoutResults(f) ==
    [f EXCEPT !.calories_per_serving = JAbsent, !.nova_score = JAbsent]

\* C17: annotate_recipe_json applied again to the file it has written
\* returns the same two values and writes the same content, so after a
\* successful call no further call changes the file or the result; the
\* values written are the recomputed ones whatever calories_per_serving and
\* nova_score the input held, and the other keys and the ingredient list
\* stay as they were.
C17_Idempotent ==
    [][/\ ret.status # "ok"
       /\ (ret'.status = "ok") =>
             /\ file' = [Annotated(WithoutResults(file)) EXCEPT !.fmt = "dump"]
             /\ file'.calories_per_serving = JNum(ExpectedPerServing(file))
             /\ ret'.calories_per_serving = file'.calories_per_serving
             /\ ret'.nova_score = file'.nova_score
             /\ file'.name = file.name
             /\ file'.ingredients = file.ingredients
             /\ file'.number_of_servings = file.number_of_servings]_recipeVars

\* a written file (servings "2", one ingredient of 300 kcal and nova 2) that
\* a further call would write again as it is
C17_Witness ==
    /\ ret.status = "ok"
    /\ file.fmt = "dump"
    /\ file.number_of_servings = JStr("2")
    /\ Len(file.ingredients.items) = 1
    /\ file.ingredients.items[1].calories = JNum(Num(300))
    /\ file.ingredients.items[1].nova_score = JNum(Num(2))
    /\ file.calories_per_serving = JNum(Num(150))
    /\ file.nova_score = JNum(Num(2))
    /\ ret.calories_per_serving = JNum(Num(150))
    /\ [Annotated(file) EXCEPT !.fmt = "dump"] = file
    /\ Validation(file).status = "none"

\* ------------------------------------------------------------------------
\* Properties of WhoopClient._get
\* ------------------------------------------------------------------------

\* the call has ended and its last request was answered
AnsweredAndDone == wpc = "done" /\ Len(log) = sent /\ sent >= 1

LastStatus == log[Len(log)]

\* C18: one call of _get sends at most _max_retries requests and comes to
\* an end; a further request is sent only after a 429 received on an
\* attempt that was not the last; the call returns the body of the first
\* response that is neither a 429 nor an error status (the body being a
\* JSON document), raises on an error status other than 429 at once, and
\* raises when the last permitted attempt is answered by 429; with
\* _max_retries >= 1 the error "Unreachable" is never raised.
C18_GetRetries ==
    /\ [](sent <= _max_retries)
    /\ <>(wpc = "done")
    /\ [][(sent' = sent + 1 /\ sent >= 1) =>
             /\ resp.status_code = 429
             /\ LastStatus = 429
             /\ attempt = sent
             /\ attempt - 1 < _max_retries - 1]_vars
    /\ [](wret.status = "ok" =>
             /\ AnsweredAndDone
             /\ LastStatus # 429
             /\ ~(LastStatus >= 400 /\ LastStatus < 600)
             /\ \A i \in 1..(Len(log) - 1) : log[i] = 429
             /\ wret.body = resp.body)
    /\ []((/\ AnsweredAndDone
           /\ LastStatus # 429
           /\ ~(LastStatus >= 400 /\ LastStatus < 600)
           /\ resp.body # "") => wret.status = "ok")
    /\ []((/\ AnsweredAndDone
           /\ LastStatus # 429
           /\ LastStatus >= 400 /\ LastStatus < 600) => wret.status = "HTTPError")
    /\ []((AnsweredAndDone /\ LastStatus = 429 /\ sent = _max_retries) =>
             wret.status = "HTTPError")
    /\ [](_max_retries >= 1 => wret.msg # "Unreachable")

\* two 429s, then the third and last permitted request is answered with a
\* document, which the call returns
C18_Witness ==
    /\ wpc = "done"
    /\ _max_retries = 3
    /\ sent = 3
    /\ log = <<429, 429, 200>>
    /\ wret = WReturn("records")

====
